---- MODULE Spec2Model ----
(***************************************************************************)
(* Model of src/main.py: the POST /calculate_berries handler, its two      *)
(* upstream fetches, the aggregation scans and the two predictor calls.    *)
(*                                                                         *)
(* A request is a coroutine that suspends only at its two awaits (the      *)
(* user-posts fetch and the coin-balances fetch); everything between two   *)
(* awaits runs in one step of the event loop.  Python numbers that may be  *)
(* floats are rationals [num, den] in lowest terms; Python ints are        *)
(* integers.  A JSON object is a record whose DOMAIN is its key set, so a  *)
(* missing key is a key outside the DOMAIN.  A type tag is the sequence of *)
(* its "::"-separated segments.                                            *)
(***************************************************************************)
EXTENDS Integers, Sequences, FiniteSets, TLC

\* ------------------------------------------------------------------ bounds
\* Longest 'resources' array of a user-posts payload.
MaxResources == 2
\* Longest 'posts' array of a posts-like resource.
MaxPosts == 2
\* Longest 'latest_balances' array of a balances payload.
MaxBalances == 2
\* Requests in flight together in the concurrent specification.
NumConcurrent == 2

\* --------------------------------------------------- handler constants
followers_of_followers == 5000
ads_purchased_from_profile == 10

\* ------------------------------------------------------------- numbers
RECURSIVE GCD(_, _)
GCD(a, b) == IF b = 0 THEN a ELSE GCD(b, a % b)

\* int -> float, as numpy and pydantic coerce an int.
Float(n) == [num |-> n, den |-> 1]

\* Python true division of two non-negative ints, d > 0.
TrueDiv(n, d) ==
    LET g == GCD(n, d) IN [num |-> n \div g, den |-> d \div g]

IsNumber(v) == DOMAIN v = {"num", "den"}

\* ------------------------------------------------------------ type tags
ProfileSuffix == <<"SocialMediaPlatform", "Profile">>
UserPostsSuffix == <<"SocialMediaPlatform", "UserPosts">>

\* str.endswith("::" + suffix): the tag has the suffix's segments at its end
\* and at least one more segment (possibly empty) before the leading "::".
EndsWith(tag, suffix) ==
    /\ Len(tag) > Len(suffix)
    /\ SubSeq(tag, Len(tag) - Len(suffix) + 1, Len(tag)) = suffix

ProfileTag == <<"0x1", "SocialMediaPlatform", "Profile">>
UserPostsTag == <<"0x1", "SocialMediaPlatform", "UserPosts">>
BareProfileTag == <<"SocialMediaPlatform", "Profile">>
CoinStoreTag == <<"0x1", "coin", "CoinStore">>

\* ------------------------------------------------ upstream payload pools
RECURSIVE SeqsUpTo(_, _)
SeqsUpTo(S, n) ==
    IF n = 0 THEN {<<>>}
    ELSE LET shorter == SeqsUpTo(S, n - 1)
         IN shorter \cup {Append(s, x) : s \in {t \in shorter : Len(t) = n - 1}, x \in S}

\* A well-formed sequence of at most n elements, or a well-formed one of
\* fewer than n elements followed by one malformed element (nothing after
\* the first missing key is ever read).
PoolUpTo(good, bad, n) ==
    SeqsUpTo(good, n)
        \cup {Append(s, x) : s \in SeqsUpTo(good, n - 1), x \in bad}

GoodPosts ==
    { [like_count |-> 10, comments |-> <<"c1", "c2", "c3">>],
      [like_count |-> 20, comments |-> <<"c1">>] }
BadPosts ==
    { [comments |-> <<"c1">>],
      [like_count |-> 5] }

GoodPostLists == SeqsUpTo(GoodPosts, MaxPosts)
BadPostLists == PoolUpTo(GoodPosts, BadPosts, MaxPosts) \ GoodPostLists

Profile(n) == [type |-> ProfileTag, data |-> [followers_count |-> n]]
UserPosts(ps) == [type |-> UserPostsTag, data |-> [posts |-> ps]]

\* Resources the scan reads without fault; two of them match neither suffix.
GoodResources ==
    { Profile(120), Profile(7),
      [type |-> BareProfileTag, data |-> [followers_count |-> 120]],
      [type |-> CoinStoreTag] }
        \cup {UserPosts(ps) : ps \in GoodPostLists}
\* Resources with a key missing where the scan reads it.
BadResources ==
    { [data |-> [followers_count |-> 120]],
      [type |-> ProfileTag],
      [type |-> ProfileTag, data |-> [name |-> "n"]],
      [type |-> UserPostsTag, data |-> [name |-> "n"]] }
        \cup {UserPosts(ps) : ps \in BadPostLists}

UserPostsPayloads ==
    {[resources |-> rs] : rs \in PoolUpTo(GoodResources, BadResources, MaxResources)}
        \cup {[message |-> "no resources"]}

ExamplePayload ==
    [resources |-> << Profile(120),
                      UserPosts(<< [like_count |-> 10, comments |-> <<"c1", "c2", "c3">>],
                                   [like_count |-> 20, comments |-> <<"c1">>] >>) >>]

Balance(sym, usd) == [metadata |-> [symbol |-> sym], amount_in_usd |-> usd]

GoodBalances ==
    { Balance("APT", 500), Balance("APT", 7), Balance("USDC", 3),
      [metadata |-> [symbol |-> "APT"]] }
BadBalances ==
    { [amount_in_usd |-> 500],
      [metadata |-> [name |-> "Aptos"], amount_in_usd |-> 500] }

\* Every sequence of records: records after the first APT one are never read,
\* so a malformed record may follow it.
CoinBalancesPayloads ==
    {[latest_balances |-> bs] : bs \in SeqsUpTo(GoodBalances \cup BadBalances, MaxBalances)}
        \cup {[message |-> "no balances"]}

ExampleBalances == [latest_balances |-> <<Balance("APT", 500)>>]

\* ------------------------------------------------------ upstream responses
\* What client.get returns: a status code and, on success, the parsed body.
HttpOk(body) == [status_code |-> 200, body |-> body]
HttpFailure(code) == [status_code |-> code, body |-> [message |-> "error"]]
FailureCodes == {404, 503}
\* The user-posts client does not follow redirects, so it can see a 3xx.
RedirectCodes == {302}

\* raise_for_status: 2xx passes, anything else raises HTTPStatusError.
IsSuccess(status_code) == status_code >= 200 /\ status_code <= 299

\* ------------------------------------------------------ aggregation scans
NoTotals ==
    [total_followers |-> 0, total_likes |-> 0, total_comments |-> 0,
     total_posts |-> 0, raised |-> "none"]

Raise(acc, exc) == [acc EXCEPT !.raised = exc]

\* Faulty variant of ScanProfile: a missing followers_count counts as 0.
ScanProfileLenient(acc, resource) ==
    IF "data" \notin DOMAIN resource THEN Raise(acc, "KeyError")
    ELSE IF "followers_count" \notin DOMAIN resource.data THEN acc
    ELSE [acc EXCEPT !.total_followers = @ + resource.data.followers_count]
\* Faulty variant of ScanProfile: the count is assigned, not added.
ScanProfileAssigns(acc, resource) ==
    IF "data" \notin DOMAIN resource THEN Raise(acc, "KeyError")
    ELSE IF "followers_count" \notin DOMAIN resource.data THEN Raise(acc, "KeyError")
    ELSE [acc EXCEPT !.total_followers = resource.data.followers_count]
\* total_followers += int(resource['data']['followers_count'])
ScanProfile(acc, resource) ==
    IF "data" \notin DOMAIN resource THEN Raise(acc, "KeyError")
    ELSE IF "followers_count" \notin DOMAIN resource.data THEN Raise(acc, "KeyError")
    ELSE [acc EXCEPT !.total_followers = @ + resource.data.followers_count]

\* Faulty variant of ScanPost: a post's comments count as one.
ScanPostOneComment(acc, post) ==
    IF "like_count" \notin DOMAIN post THEN Raise(acc, "KeyError")
    ELSE LET liked == [acc EXCEPT !.total_likes = @ + post.like_count]
         IN IF "comments" \notin DOMAIN post THEN Raise(liked, "KeyError")
            ELSE [liked EXCEPT !.total_comments = @ + 1, !.total_posts = @ + 1]

\* The body of the inner loop: like_count is read before comments, so a post
\* without comments has already added its likes when the KeyError is raised.
ScanPost(acc, post) ==
    IF "like_count" \notin DOMAIN post THEN Raise(acc, "KeyError")
    ELSE LET liked == [acc EXCEPT !.total_likes = @ + post.like_count]
         IN IF "comments" \notin DOMAIN post THEN Raise(liked, "KeyError")
            ELSE [liked EXCEPT !.total_comments = @ + Len(post.comments),
                               !.total_posts = @ + 1]

RECURSIVE ScanPostList(_, _, _)
ScanPostList(posts, i, acc) ==
    IF i > Len(posts) \/ acc.raised # "none" THEN acc
    ELSE ScanPostList(posts, i + 1, ScanPost(acc, posts[i]))

ScanResource(acc, resource) ==
    IF "type" \notin DOMAIN resource THEN Raise(acc, "KeyError")
    ELSE IF EndsWith(resource.type, ProfileSuffix) THEN ScanProfile(acc, resource)
    ELSE IF EndsWith(resource.type, UserPostsSuffix) THEN
        IF "data" \notin DOMAIN resource THEN Raise(acc, "KeyError")
        ELSE IF "posts" \notin DOMAIN resource.data THEN Raise(acc, "KeyError")
        ELSE ScanPostList(resource.data.posts, 1, acc)
    ELSE acc

RECURSIVE ScanResourceList(_, _, _)
ScanResourceList(resources, i, acc) ==
    IF i > Len(resources) \/ acc.raised # "none" THEN acc
    ELSE ScanResourceList(resources, i + 1, ScanResource(acc, resources[i]))

ScanUserPosts(payload) ==
    IF "resources" \notin DOMAIN payload THEN Raise(NoTotals, "KeyError")
    ELSE ScanResourceList(payload.resources, 1, NoTotals)

\* Faulty variant of Average: the total is not divided.
AverageUndivided(total, posts) ==
    IF posts > 0 THEN Float(total) ELSE Float(0)

\* total / total_posts if total_posts > 0 else 0
Average(total, posts) ==
    IF posts > 0 THEN TrueDiv(total, posts) ELSE Float(0)

\* Faulty variant of ScanBalanceList: no break, so every record is read and the
\* last APT record wins.
RECURSIVE ScanBalanceListNoBreak(_, _)
ScanBalanceListNoBreak(balances, i) ==
    IF i > Len(balances) THEN [onchain_net_worth |-> 0, raised |-> "none"]
    ELSE LET balance == balances[i]
             rest == ScanBalanceListNoBreak(balances, i + 1)
         IN IF "metadata" \notin DOMAIN balance
                THEN [onchain_net_worth |-> 0, raised |-> "KeyError"]
            ELSE IF "symbol" \notin DOMAIN balance.metadata
                THEN [onchain_net_worth |-> 0, raised |-> "KeyError"]
            ELSE IF rest.raised # "none" THEN rest
            ELSE IF \E j \in (i + 1)..Len(balances) : balances[j].metadata.symbol = "APT"
                THEN rest
            ELSE IF balance.metadata.symbol = "APT"
                THEN [onchain_net_worth |->
                          IF "amount_in_usd" \in DOMAIN balance
                          THEN balance.amount_in_usd ELSE 0,
                      raised |-> "none"]
            ELSE rest

\* The balance loop: the first record whose symbol is 'APT' sets the net
\* worth (0 when it has no amount_in_usd) and ends the loop.
RECURSIVE ScanBalanceList(_, _)
ScanBalanceList(balances, i) ==
    IF i > Len(balances) THEN [onchain_net_worth |-> 0, raised |-> "none"]
    ELSE LET balance == balances[i]
         IN IF "metadata" \notin DOMAIN balance
                THEN [onchain_net_worth |-> 0, raised |-> "KeyError"]
            ELSE IF "symbol" \notin DOMAIN balance.metadata
                THEN [onchain_net_worth |-> 0, raised |-> "KeyError"]
            ELSE IF balance.metadata.symbol = "APT"
                THEN [onchain_net_worth |->
                          IF "amount_in_usd" \in DOMAIN balance
                          THEN balance.amount_in_usd ELSE 0,
                      raised |-> "none"]
            ELSE ScanBalanceList(balances, i + 1)

ScanCoinBalances(payload) ==
    IF "latest_balances" \notin DOMAIN payload
    THEN [onchain_net_worth |-> 0, raised |-> "KeyError"]
    ELSE ScanBalanceList(payload.latest_balances, 1)

\* ------------------------------------------------------------ predictors
\* A loaded predictor: the number of features it was fitted on, the shape of
\* the array predict returns, and whether its targets are numbers.
Regressor(n, ndim) == [n_features_in |-> n, ndim |-> ndim, numeric |-> TRUE]
Classifier(n) == [n_features_in |-> n, ndim |-> 1, numeric |-> FALSE]

ModelPairs ==
    { <<Regressor(2, 1), Regressor(7, 1)>>,
      <<Regressor(2, 2), Regressor(7, 2)>>,
      <<Regressor(3, 1), Regressor(7, 1)>>,
      <<Regressor(2, 1), Regressor(6, 1)>>,
      <<Regressor(2, 1), Classifier(7)>>,
      <<Classifier(2), Regressor(7, 1)>> }

RECURSIVE WeightedSum(_, _)
WeightedSum(row, i) ==
    IF i > Len(row) THEN 0
    ELSE i * (row[i].num + row[i].den) + WeightedSum(row, i + 1)

\* model.predict(np.array([row])): raises on a row that is not numeric or has
\* the wrong width, else returns a deterministic value in the model's shape.
Predict(model, row) ==
    IF \E i \in 1..Len(row) : ~IsNumber(row[i]) THEN [raised |-> "ValueError"]
    ELSE IF Len(row) # model.n_features_in THEN [raised |-> "ValueError"]
    ELSE LET v == IF model.numeric
                  THEN [num |-> WeightedSum(row, 1) % 101, den |-> 1]
                  ELSE [label |-> "high"]
         IN [raised |-> "none", ndim |-> model.ndim,
             data |-> IF model.ndim = 1 THEN <<v>> ELSE << <<v>> >>]

\* prediction[0] if prediction.ndim == 1 else prediction[0][0]
FirstElement(prediction) ==
    IF prediction.ndim = 1 THEN prediction.data[1] ELSE prediction.data[1][1]

\* The row calculate_credibility_weight hands to the credibility predictor.
CredibilityFeatures(net_worth, fof) == <<Float(net_worth), Float(fof)>>

\* The dict of lines 110-118.
BerriesInput(totals, avg_likes, avg_comments, cw) ==
    [followers |-> totals.total_followers,
     likes |-> totals.total_likes,
     comments |-> totals.total_comments,
     ads_purchased_from_profile |-> ads_purchased_from_profile,
     average_likes_per_day |-> avg_likes,
     average_comments_per_day |-> avg_comments,
     credibility_weight |-> cw]

\* Faulty variant of BerriesFeatures: the last two features change places.
BerriesFeaturesSwapped(input_data) ==
    << Float(input_data.followers),
       Float(input_data.likes),
       Float(input_data.comments),
       Float(input_data.ads_purchased_from_profile),
       input_data.average_likes_per_day,
       input_data.credibility_weight,
       input_data.average_comments_per_day >>

\* The row calculate_berries hands to the influencer predictor.
BerriesFeatures(input_data) ==
    << Float(input_data.followers),
       Float(input_data.likes),
       Float(input_data.comments),
       Float(input_data.ads_purchased_from_profile),
       input_data.average_likes_per_day,
       input_data.average_comments_per_day,
       input_data.credibility_weight >>

\* ------------------------------------------------------------- responses
NoResponse == [kind |-> "none"]

\* Faulty variant of BuildOutput: a field that does not validate is left out.
BuildOutputLenient(cw, b) ==
    IF IsNumber(cw) /\ IsNumber(b)
    THEN [kind |-> "success", status_code |-> 200,
          credibility_weight |-> cw, berries |-> b]
    ELSE [kind |-> "success", status_code |-> 200, credibility_weight |-> cw]

\* BerryCalculationOutput(...): both fields must validate as floats.
BuildOutput(cw, b) ==
    IF IsNumber(cw) /\ IsNumber(b)
    THEN [kind |-> "success", status_code |-> 200,
          credibility_weight |-> cw, berries |-> b]
    ELSE [kind |-> "raised"]

\* Faulty variant of FetchFailed: the upstream failure is reported as a plain 500.
FetchFailedAs500(status_code) ==
    [kind |-> "error", status_code |-> 500,
     detail |-> "Error fetching external data"]
\* except httpx.HTTPStatusError
FetchFailed(status_code) ==
    [kind |-> "error", status_code |-> status_code,
     detail |-> "Error fetching external data"]
\* except KeyError
MalformedData ==
    [kind |-> "error", status_code |-> 500,
     detail |-> "Unexpected data structure in external API response"]
\* except Exception
InternalError ==
    [kind |-> "error", status_code |-> 500, detail |-> "Internal Server Error"]

\* ----------------------------------------------------------------- state
VARIABLES
    credibility_model,          \* module globals, loaded once at start-up
    influencer_model,
    pc,                         \* where each request's coroutine stands
    account_address,            \* input.account_address
    user_posts_status,          \* status of the user-posts response, 0 before it
    user_posts_data,
    total_followers,
    total_likes,
    total_comments,
    total_posts,
    average_likes_per_day,
    average_comments_per_day,
    coin_balances_status,       \* status of the balances response, 0 before it
    coin_balances,
    onchain_net_worth,
    credibility_features,       \* the row given to credibility_model.predict
    credibility_weight,
    berries_input,
    berries_features,           \* the row given to influencer_model.predict
    berries,
    response,                   \* what the client receives
    trace                       \* the steps the request has taken, in order

models == <<credibility_model, influencer_model>>
posts_locals ==
    <<user_posts_status, user_posts_data, total_followers, total_likes,
      total_comments, total_posts, average_likes_per_day, average_comments_per_day>>
balances_locals ==
    <<coin_balances_status, coin_balances, onchain_net_worth, credibility_features,
      credibility_weight, berries_input, berries_features, berries>>
vars == <<models, pc, account_address, posts_locals, balances_locals, response, trace>>

Unbound == [unbound |-> TRUE]
Addresses == {"0xa11ce", "0xb0b"}
SoloAddresses == {"0xa11ce"}

\* Request slots; the sequential specifications use the first one only.
AllRequests == 1..NumConcurrent
Requests == {1}

InitWith(pairs) ==
    /\ \E pair \in pairs :
          /\ credibility_model = pair[1]
          /\ influencer_model = pair[2]
    /\ pc = [r \in AllRequests |-> "idle"]
    /\ account_address = [r \in AllRequests |-> ""]
    /\ user_posts_status = [r \in AllRequests |-> 0]
    /\ user_posts_data = [r \in AllRequests |-> Unbound]
    /\ total_followers = [r \in AllRequests |-> 0]
    /\ total_likes = [r \in AllRequests |-> 0]
    /\ total_comments = [r \in AllRequests |-> 0]
    /\ total_posts = [r \in AllRequests |-> 0]
    /\ average_likes_per_day = [r \in AllRequests |-> Float(0)]
    /\ average_comments_per_day = [r \in AllRequests |-> Float(0)]
    /\ coin_balances_status = [r \in AllRequests |-> 0]
    /\ coin_balances = [r \in AllRequests |-> Unbound]
    /\ onchain_net_worth = [r \in AllRequests |-> 0]
    /\ credibility_features = [r \in AllRequests |-> <<>>]
    /\ credibility_weight = [r \in AllRequests |-> Unbound]
    /\ berries_input = [r \in AllRequests |-> Unbound]
    /\ berries_features = [r \in AllRequests |-> <<>>]
    /\ berries = [r \in AllRequests |-> Unbound]
    /\ response = [r \in AllRequests |-> NoResponse]
    /\ trace = [r \in AllRequests |-> <<>>]

Init == InitWith(ModelPairs)

\* ---------------------------------------------------------------- actions
\* POST /calculate_berries arrives: the handler runs to its first await.
Intake(r, address) ==
    /\ pc[r] = "idle"
    /\ pc' = [pc EXCEPT ![r] = "await_user_posts"]
    /\ account_address' = [account_address EXCEPT ![r] = address]
    /\ trace' = [trace EXCEPT ![r] = Append(@, "fetch_user_posts")]
    /\ UNCHANGED <<models, posts_locals, balances_locals, response>>

\* Faulty variant of UserPostsFault: a fault of the scan is swallowed.
UserPostsFaultSwallowed(resp) ==
    IF ~IsSuccess(resp.status_code) THEN "HTTPStatusError" ELSE "none"

\* The exception, if any, with which lines 75-94 end for this response.
UserPostsFault(resp) ==
    IF ~IsSuccess(resp.status_code) THEN "HTTPStatusError"
    ELSE ScanUserPosts(resp.body).raised

\* The user-posts response arrives: the handler resumes, scans the payload
\* and runs to its second await, or ends in an except clause.
UserPostsArrive(r, resp) ==
    /\ pc[r] = "await_user_posts"
    /\ user_posts_status' = [user_posts_status EXCEPT ![r] = resp.status_code]
    /\ LET fault == UserPostsFault(resp)
           scan == ScanUserPosts(resp.body)
       IN IF fault = "HTTPStatusError"
          THEN /\ response' = [response EXCEPT ![r] = FetchFailed(resp.status_code)]
               /\ pc' = [pc EXCEPT ![r] = "done"]
               /\ trace' = [trace EXCEPT ![r] =
                               @ \o <<"user_posts_failed", "respond_error">>]
               /\ UNCHANGED <<user_posts_data, total_followers, total_likes,
                              total_comments, total_posts, average_likes_per_day,
                              average_comments_per_day>>
          ELSE /\ user_posts_data' = [user_posts_data EXCEPT ![r] = resp.body]
               /\ total_followers' = [total_followers EXCEPT ![r] = scan.total_followers]
               /\ total_likes' = [total_likes EXCEPT ![r] = scan.total_likes]
               /\ total_comments' = [total_comments EXCEPT ![r] = scan.total_comments]
               /\ total_posts' = [total_posts EXCEPT ![r] = scan.total_posts]
               /\ IF fault = "KeyError"
                  THEN /\ response' = [response EXCEPT ![r] = MalformedData]
                       /\ pc' = [pc EXCEPT ![r] = "done"]
                       /\ trace' = [trace EXCEPT ![r] =
                                       @ \o <<"user_posts_fetched", "user_posts_scan_raised",
                                              "respond_error">>]
                       /\ UNCHANGED <<average_likes_per_day, average_comments_per_day>>
                  ELSE /\ average_likes_per_day' =
                              [average_likes_per_day EXCEPT ![r] =
                                  Average(scan.total_likes, scan.total_posts)]
                       /\ average_comments_per_day' =
                              [average_comments_per_day EXCEPT ![r] =
                                  Average(scan.total_comments, scan.total_posts)]
                       /\ pc' = [pc EXCEPT ![r] = "await_coin_balances"]
                       /\ trace' = [trace EXCEPT ![r] =
                                       @ \o <<"user_posts_fetched", "user_posts_scanned",
                                              "fetch_coin_balances">>]
                       /\ UNCHANGED response
    /\ UNCHANGED <<models, account_address, balances_locals>>

\* Faulty variant of Totals: the aggregates live in one slot shared by all requests
\* (the first request's).
TotalsShared(r) ==
    [total_followers |-> total_followers[1], total_likes |-> total_likes[1],
     total_comments |-> total_comments[1], total_posts |-> total_posts[1]]

\* The request's own aggregates, as lines 110-116 read them.
Totals(r) ==
    [total_followers |-> total_followers[r], total_likes |-> total_likes[r],
     total_comments |-> total_comments[r], total_posts |-> total_posts[r]]

\* The balances response arrives: the handler resumes and runs to its end.
CoinBalancesArrive(r, resp) ==
    /\ pc[r] = "await_coin_balances"
    /\ LET fetched == IsSuccess(resp.status_code)
           scan == ScanCoinBalances(resp.body)
           scanned == fetched /\ scan.raised = "none"
           row2 == CredibilityFeatures(scan.onchain_net_worth, followers_of_followers)
           pred1 == Predict(credibility_model, row2)
           weighed == scanned /\ pred1.raised = "none"
           cw == FirstElement(pred1)
           input == BerriesInput(Totals(r), average_likes_per_day[r],
                                 average_comments_per_day[r], cw)
           row7 == BerriesFeatures(input)
           pred2 == Predict(influencer_model, row7)
           scored == weighed /\ pred2.raised = "none"
           b == FirstElement(pred2)
           out == BuildOutput(cw, b)
           built == scored /\ out.kind = "success"
       IN /\ coin_balances_status' = [coin_balances_status EXCEPT ![r] = resp.status_code]
          /\ coin_balances' = [coin_balances EXCEPT ![r] = IF fetched THEN resp.body ELSE @]
          /\ onchain_net_worth' =
                [onchain_net_worth EXCEPT ![r] = IF fetched THEN scan.onchain_net_worth ELSE @]
          /\ credibility_features' =
                [credibility_features EXCEPT ![r] = IF scanned THEN row2 ELSE @]
          /\ credibility_weight' =
                [credibility_weight EXCEPT ![r] = IF weighed THEN cw ELSE @]
          /\ berries_input' = [berries_input EXCEPT ![r] = IF weighed THEN input ELSE @]
          /\ berries_features' = [berries_features EXCEPT ![r] = IF weighed THEN row7 ELSE @]
          /\ berries' = [berries EXCEPT ![r] = IF scored THEN b ELSE @]
          /\ response' =
                [response EXCEPT ![r] =
                    IF ~fetched THEN FetchFailed(resp.status_code)
                    ELSE IF ~scanned THEN MalformedData
                    ELSE IF ~built THEN InternalError
                    ELSE out]
          /\ trace' =
                [trace EXCEPT ![r] =
                    @ \o (IF ~fetched THEN <<"coin_balances_failed">>
                          ELSE <<"coin_balances_fetched">>
                            \o (IF ~scanned THEN <<"coin_balances_scan_raised">>
                                ELSE <<"coin_balances_scanned", "credibility_predict">>
                            \o (IF ~weighed THEN <<"credibility_raised">>
                                ELSE <<"credibility_returned", "berries_input_assembled",
                                       "influencer_predict">>
                            \o (IF ~scored THEN <<"influencer_raised">>
                                ELSE <<"influencer_returned">>
                            \o (IF ~built THEN <<"output_raised">> ELSE <<>>)))))
                      \o <<IF built THEN "respond_success" ELSE "respond_error">>]
    /\ pc' = [pc EXCEPT ![r] = "done"]
    /\ UNCHANGED <<models, account_address, posts_locals>>

\* ---------------------------------------------------------- specifications
UserPostsResponses(payloads) ==
    {HttpOk(p) : p \in payloads}
        \cup {HttpFailure(c) : c \in FailureCodes \cup RedirectCodes}
CoinBalancesResponses(payloads) ==
    {HttpOk(p) : p \in payloads} \cup {HttpFailure(c) : c \in FailureCodes}

\* The user-posts payloads with a key missing where the scan reads it.
MalformedUserPosts ==
    UserPostsPayloads
        \ {[resources |-> rs] : rs \in SeqsUpTo(GoodResources, MaxResources)}

\* A few well-formed user-posts payloads.
FewUserPosts ==
    { [resources |-> <<>>],
      ExamplePayload,
      [resources |-> <<Profile(120), Profile(7)>>],
      [resources |-> <<[type |-> CoinStoreTag], UserPosts(<<>>)>>] }
FewCoinBalances ==
    { ExampleBalances, [latest_balances |-> <<>>] }

\* One request; every malformed user-posts payload and a few well-formed
\* ones, every balances payload.
Next ==
    \E r \in Requests :
        \/ \E a \in SoloAddresses : Intake(r, a)
        \/ \E resp \in UserPostsResponses(MalformedUserPosts \cup FewUserPosts) :
              UserPostsArrive(r, resp)
        \/ \E resp \in CoinBalancesResponses(CoinBalancesPayloads) :
              CoinBalancesArrive(r, resp)

Spec == Init /\ [][Next]_vars

\* One request; every user-posts payload, a few balances payloads.
NextPosts ==
    \E r \in Requests :
        \/ \E a \in SoloAddresses : Intake(r, a)
        \/ \E resp \in UserPostsResponses(UserPostsPayloads) : UserPostsArrive(r, resp)
        \/ \E resp \in CoinBalancesResponses(FewCoinBalances) : CoinBalancesArrive(r, resp)

\* The aggregation is the same under every predictor: two working pairs.
WorkingModelPairs ==
    { <<Regressor(2, 1), Regressor(7, 1)>>,
      <<Regressor(2, 2), Regressor(7, 2)>> }

PostsSpec == InitWith(WorkingModelPairs) /\ [][NextPosts]_vars

\* Several requests in flight, interleaved at their awaits.
ConcUserPosts ==
    { ExamplePayload, [resources |-> <<Profile(7)>>], [resources |-> <<[type |-> ProfileTag]>>] }
ConcCoinBalances ==
    { ExampleBalances, [latest_balances |-> <<Balance("USDC", 3)>>], [message |-> "no balances"] }

NextConc ==
    \E r \in AllRequests :
        \/ \E a \in Addresses : Intake(r, a)
        \/ \E resp \in UserPostsResponses(ConcUserPosts) : UserPostsArrive(r, resp)
        \/ \E resp \in CoinBalancesResponses(ConcCoinBalances) : CoinBalancesArrive(r, resp)

ConcSpec == Init /\ [][NextConc]_vars

\* ============================================================= properties
Occurs(tr, ev) == \E i \in 1..Len(tr) : tr[i] = ev
Count(tr, ev) == Cardinality({i \in 1..Len(tr) : tr[i] = ev})
\* ev, when it occurs, comes after an earlier occurrence of before.
Precedes(tr, before, ev) ==
    \A i \in 1..Len(tr) : tr[i] = ev => \E j \in 1..(i - 1) : tr[j] = before

Failed(status_code) == status_code # 0 /\ (status_code < 200 \/ status_code > 299)
Fetched(status_code) == status_code >= 200 /\ status_code <= 299

RECURSIVE SumInts(_)
SumInts(s) == IF s = <<>> THEN 0 ELSE Head(s) + SumInts(Tail(s))

RECURSIVE Flatten(_)
Flatten(ss) == IF ss = <<>> THEN <<>> ELSE Head(ss) \o Flatten(Tail(ss))

\* Classification of a resource by the last two segments of its tag.
TagIs(x, name) ==
    /\ "type" \in DOMAIN x
    /\ Len(x.type) >= 3
    /\ x.type[Len(x.type) - 1] = "SocialMediaPlatform"
    /\ x.type[Len(x.type)] = name
ProfileLike(x) == TagIs(x, "Profile")
PostsLike(x) == TagIs(x, "UserPosts")

\* The scan finished the user-posts payload of request r without a fault.
Scanned(r) == Occurs(trace[r], "user_posts_scanned")

\* Every post of every posts-like resource of a well-formed payload, in order.
PostsOf(payload) ==
    LET rs == payload.resources
    IN Flatten([i \in 1..Len(rs) |->
                   IF PostsLike(rs[i]) THEN rs[i].data.posts ELSE <<>>])

\* followers_count of every profile-like resource of a well-formed payload.
FollowersOf(payload) ==
    LET rs == payload.resources
        idx == {i \in 1..Len(rs) : ProfileLike(rs[i])}
        RECURSIVE Pick(_)
        Pick(i) == IF i > Len(rs) THEN <<>>
                   ELSE (IF i \in idx THEN <<rs[i].data.followers_count>> ELSE <<>>)
                            \o Pick(i + 1)
    IN Pick(1)

\* ------------------------------------------------------------------- C1
\* C1: when either upstream fetch of a request receives a non-2xx response
\* with status S, the request ends with an error response whose status code
\* is S, never with a success response.
C1_UpstreamStatusPropagates ==
    \A r \in AllRequests :
        /\ Failed(user_posts_status[r]) =>
              /\ response[r].kind = "error"
              /\ response[r].status_code = user_posts_status[r]
        /\ Failed(coin_balances_status[r]) =>
              /\ response[r].kind = "error"
              /\ response[r].status_code = coin_balances_status[r]

\* A balances fetch answered 503 after the user-posts fetch succeeded.
C1_Witness ==
    \E r \in AllRequests :
        /\ pc[r] = "done"
        /\ Fetched(user_posts_status[r])
        /\ coin_balances_status[r] = 503
        /\ response[r].status_code = 503

\* ------------------------------------------------------------------- C2
\* A key the claim lists is absent somewhere in the user-posts payload.
PostsLacksListedKey(p) ==
    \/ "resources" \notin DOMAIN p
    \/ \E i \in 1..Len(p.resources) :
          LET x == p.resources[i]
          IN \/ "type" \notin DOMAIN x
             \/ "data" \notin DOMAIN x
             \/ ProfileLike(x) /\ "followers_count" \notin DOMAIN x.data
             \/ /\ PostsLike(x)
                /\ \/ "posts" \notin DOMAIN x.data
                   \/ \E j \in 1..Len(x.data.posts) :
                         \/ "like_count" \notin DOMAIN x.data.posts[j]
                         \/ "comments" \notin DOMAIN x.data.posts[j]

BalanceLacksKey(b) ==
    \/ "metadata" \notin DOMAIN b
    \/ "symbol" \notin DOMAIN b.metadata

\* A key the claim lists is absent somewhere in the balances payload.
BalancesLackListedKey(p) ==
    \/ "latest_balances" \notin DOMAIN p
    \/ \E i \in 1..Len(p.latest_balances) : BalanceLacksKey(p.latest_balances[i])

\* C2 as stated, in its weakest part: a request whose user-posts or balances
\* payload lacks one of the listed keys never ends with a success response.
C2_AnyMissingKeyFails ==
    \A r \in AllRequests :
        (/\ pc[r] = "done"
         /\ \/ Fetched(user_posts_status[r]) /\ PostsLacksListedKey(user_posts_data[r])
            \/ Fetched(coin_balances_status[r]) /\ BalancesLackListedKey(coin_balances[r]))
            => response[r].kind # "success"

\* A key is absent where the scan reads it: 'resources'; 'type' of a
\* resource; 'data' and 'followers_count' of a profile-like resource; 'data'
\* and 'posts' of a posts-like resource, 'like_count' and 'comments' of its
\* posts.
PostsLacksReadKey(p) ==
    \/ "resources" \notin DOMAIN p
    \/ \E i \in 1..Len(p.resources) :
          LET x == p.resources[i]
          IN \/ "type" \notin DOMAIN x
             \/ /\ ProfileLike(x)
                /\ \/ "data" \notin DOMAIN x
                   \/ "followers_count" \notin DOMAIN x.data
             \/ /\ PostsLike(x)
                /\ \/ "data" \notin DOMAIN x
                   \/ "posts" \notin DOMAIN x.data
                   \/ \E j \in 1..Len(x.data.posts) :
                         \/ "like_count" \notin DOMAIN x.data.posts[j]
                         \/ "comments" \notin DOMAIN x.data.posts[j]

\* 'latest_balances' is absent, or a record lacks 'metadata' or 'symbol' and
\* no record before it has symbol 'APT'.
BalancesLackReadKey(p) ==
    \/ "latest_balances" \notin DOMAIN p
    \/ \E i \in 1..Len(p.latest_balances) :
          /\ BalanceLacksKey(p.latest_balances[i])
          /\ \A j \in 1..(i - 1) :
                \/ BalanceLacksKey(p.latest_balances[j])
                \/ p.latest_balances[j].metadata.symbol # "APT"

\* C2 (amended): a finished request ends with the 500 malformed-upstream-data
\* error exactly when a fetched payload lacks a key where the scan reads it;
\* keys the scan never reads (the 'data' of a resource matching neither
\* suffix, a record after the first APT record) and the zero defaults (no
\* posts, no APT record, an APT record without 'amount_in_usd') do not fail
\* the request.
C2_MissingReadKeyFails ==
    \A r \in AllRequests :
        pc[r] = "done" =>
            (response[r] = MalformedData
                <=> \/ Fetched(user_posts_status[r])
                       /\ PostsLacksReadKey(user_posts_data[r])
                    \/ Fetched(coin_balances_status[r])
                       /\ BalancesLackReadKey(coin_balances[r]))

\* A well-formed user-posts payload followed by a balances payload whose
\* first record has no 'metadata'.
C2_Witness ==
    \E r \in AllRequests :
        /\ pc[r] = "done"
        /\ Fetched(coin_balances_status[r])
        /\ "latest_balances" \in DOMAIN coin_balances[r]
        /\ Len(coin_balances[r].latest_balances) > 0
        /\ "metadata" \notin DOMAIN coin_balances[r].latest_balances[1]
        /\ response[r] = MalformedData

\* ------------------------------------------------------------------- C3
ScalarFields == {"credibility_weight", "berries"}

\* C3: a request ends in exactly one response: a success carrying both
\* scalars, each returned by its predictor in this request, or an error
\* carrying neither; no response carries one scalar only.
C3_AllOrNothing ==
    \A r \in AllRequests :
        /\ (pc[r] = "done") <=> (response[r].kind \in {"success", "error"})
        /\ pc[r] # "done" => response[r] = NoResponse
        /\ Count(trace[r], "respond_success") + Count(trace[r], "respond_error")
              = (IF pc[r] = "done" THEN 1 ELSE 0)
        /\ response[r].kind = "success" =>
              /\ ScalarFields \subseteq DOMAIN response[r]
              /\ IsNumber(response[r].credibility_weight)
              /\ IsNumber(response[r].berries)
              /\ Occurs(trace[r], "credibility_returned")
              /\ Occurs(trace[r], "influencer_returned")
              /\ response[r].credibility_weight = credibility_weight[r]
              /\ response[r].berries = berries[r]
        /\ response[r].kind = "error" => ScalarFields \cap DOMAIN response[r] = {}

\* The credibility predictor returned a number and a later step failed: the
\* error response carries no scalar.
C3_Witness ==
    \E r \in AllRequests :
        /\ response[r].kind = "error"
        /\ IsNumber(credibility_weight[r])
        /\ Occurs(trace[r], "influencer_returned")
        /\ Occurs(trace[r], "output_raised")

\* ------------------------------------------------------------------- C4
\* C4 as stated: the follower total fed to the influencer predictor is the
\* followers_count of the last profile-like resource.
C4_LastProfileWins ==
    \A r \in AllRequests :
        (berries_features[r] # <<>> /\ FollowersOf(user_posts_data[r]) # <<>>) =>
            LET fs == FollowersOf(user_posts_data[r])
            IN berries_features[r][1] = Float(fs[Len(fs)])

\* C4 (amended): the follower total fed to the influencer predictor is the
\* sum of followers_count over all profile-like resources; with exactly one
\* profile-like resource it is that resource's followers_count.
C4_ProfilesAreSummed ==
    \A r \in AllRequests :
        /\ Scanned(r) => total_followers[r] = SumInts(FollowersOf(user_posts_data[r]))
        /\ berries_features[r] # <<>> =>
              LET fs == FollowersOf(user_posts_data[r])
              IN /\ berries_features[r][1] = Float(SumInts(fs))
                 /\ Len(fs) = 1 => berries_features[r][1] = Float(fs[1])

\* Two profile-like resources with different counts reached the predictor.
C4_Witness ==
    \E r \in AllRequests :
        /\ berries_features[r] # <<>>
        /\ FollowersOf(user_posts_data[r]) = <<120, 7>>
        /\ berries_features[r][1] = Float(127)

\* ------------------------------------------------------------------- C5
IsAPT(b) ==
    /\ "metadata" \in DOMAIN b
    /\ "symbol" \in DOMAIN b.metadata
    /\ b.metadata.symbol = "APT"

\* amount_in_usd of the first APT record (0 without the field), 0 without
\* an APT record.
FirstAPTWorth(payload) ==
    LET bs == payload.latest_balances
        apt == {i \in 1..Len(bs) : IsAPT(bs[i])}
    IN IF apt = {} THEN 0
       ELSE LET first == CHOOSE i \in apt : \A j \in apt : i <= j
            IN IF "amount_in_usd" \in DOMAIN bs[first]
               THEN bs[first].amount_in_usd ELSE 0

\* C5: the net worth given to the credibility predictor is the amount_in_usd
\* of the first APT record (0 if it has none), whatever follows it, and 0
\* when no record is APT.
C5_FirstAPTRecord ==
    \A r \in AllRequests :
        credibility_features[r] # <<>> =>
            /\ onchain_net_worth[r] = FirstAPTWorth(coin_balances[r])
            /\ credibility_features[r][1] = Float(FirstAPTWorth(coin_balances[r]))

\* Two APT records with different amounts: the first one reached the predictor.
C5_Witness ==
    \E r \in AllRequests :
        /\ credibility_features[r] # <<>>
        /\ coin_balances[r].latest_balances = <<Balance("APT", 7), Balance("APT", 500)>>
        /\ credibility_features[r][1] = Float(7)

\* ------------------------------------------------------------------- C6
\* The scalar inside the array the credibility predictor returns for row.
Returned(model, row) ==
    LET p == Predict(model, row)
    IN IF p.ndim = 2 THEN p.data[1][1] ELSE p.data[1]

\* C6: the credibility predictor has returned before the influencer row is
\* assembled and before the influencer predictor is invoked; the row's 7th
\* element is the value V the credibility predictor returned, and so is the
\* credibility_weight of a success response.
C6_CredibilityFeedsInfluencer ==
    \A r \in AllRequests :
        /\ Precedes(trace[r], "credibility_predict", "credibility_returned")
        /\ Precedes(trace[r], "credibility_returned", "berries_input_assembled")
        /\ Precedes(trace[r], "berries_input_assembled", "influencer_predict")
        /\ berries_features[r] # <<>> =>
              /\ Len(berries_features[r]) = 7
              /\ berries_features[r][7]
                    = Returned(credibility_model, credibility_features[r])
        /\ response[r].kind = "success" =>
              response[r].credibility_weight
                  = Returned(credibility_model, credibility_features[r])

\* A success whose credibility predictor returns a 2-D array.
C6_Witness ==
    \E r \in AllRequests :
        /\ response[r].kind = "success"
        /\ credibility_model.ndim = 2
        /\ berries_features[r][7] = response[r].credibility_weight
        /\ berries_features[r][7] # berries_features[r][6]

\* ------------------------------------------------------------------- C7
\* C7: with posts, each average times the number of posts is the total; with
\* no post both averages are exactly 0 and the request goes on to the
\* balances fetch.
C7_Averages ==
    \A r \in AllRequests :
        /\ Scanned(r) =>
              LET ps == PostsOf(user_posts_data[r])
                  n == Len(ps)
                  likes == SumInts([i \in 1..n |-> ps[i].like_count])
                  comments == SumInts([i \in 1..n |-> Len(ps[i].comments)])
                  al == average_likes_per_day[r]
                  ac == average_comments_per_day[r]
              IN IF n > 0
                 THEN /\ al.den > 0 /\ al.num * n = likes * al.den
                      /\ ac.den > 0 /\ ac.num * n = comments * ac.den
                 ELSE al = Float(0) /\ ac = Float(0)
        /\ (/\ Fetched(user_posts_status[r])
            /\ ~PostsLacksReadKey(user_posts_data[r])
            /\ PostsOf(user_posts_data[r]) = <<>>)
              => /\ Scanned(r)
                 /\ Occurs(trace[r], "fetch_coin_balances")

\* A payload with a posts-like resource whose post list is empty.
C7_Witness ==
    \E r \in AllRequests :
        /\ Scanned(r)
        /\ \E i \in 1..Len(user_posts_data[r].resources) :
              PostsLike(user_posts_data[r].resources[i])
        /\ PostsOf(user_posts_data[r]) = <<>>
        /\ average_likes_per_day[r] = Float(0)
        /\ response[r].kind = "success"

\* ------------------------------------------------------------------- C9
\* C9: one scan of a well-formed payload yields the sum of like_count, the
\* sum of the comment-collection lengths and the number of the posts of the
\* posts-like resources, and the followers of the profile-like ones; other
\* resources add nothing.  The example payload
\* yields followers 120, likes 30, comments 4, posts 2, averages 15 and 2.
C9_Totals ==
    \A r \in AllRequests :
        Scanned(r) =>
            LET ps == PostsOf(user_posts_data[r])
                n == Len(ps)
            IN /\ total_likes[r] = SumInts([i \in 1..n |-> ps[i].like_count])
               /\ total_comments[r] = SumInts([i \in 1..n |-> Len(ps[i].comments)])
               /\ total_posts[r] = n
               /\ total_followers[r] = SumInts(FollowersOf(user_posts_data[r]))
               /\ user_posts_data[r] = ExamplePayload =>
                     /\ total_followers[r] = 120
                     /\ total_likes[r] = 30
                     /\ total_comments[r] = 4
                     /\ total_posts[r] = 2
                     /\ average_likes_per_day[r] = Float(15)
                     /\ average_comments_per_day[r] = Float(2)

\* The example payload has been scanned.
C9_Witness ==
    \E r \in AllRequests :
        /\ Scanned(r)
        /\ user_posts_data[r] = ExamplePayload
        /\ total_likes[r] = 30
        /\ total_comments[r] = 4

\* ------------------------------------------------------------------ C10
\* C10: each fetch is issued at most once; the balances fetch is issued only
\* after the user-posts fetch succeeded and its payload was scanned without
\* fault; a predictor is invoked only after both fetches and both scans
\* succeeded; a failed user-posts fetch or a malformed user-posts payload
\* ends the request with no balances fetch and no predictor call.
C10_StepOrder ==
    \A r \in AllRequests :
        LET tr == trace[r]
            postsOk == /\ Fetched(user_posts_status[r])
                       /\ ~PostsLacksReadKey(user_posts_data[r])
            balancesOk == /\ Fetched(coin_balances_status[r])
                          /\ ~BalancesLackReadKey(coin_balances[r])
        IN /\ Count(tr, "fetch_user_posts") <= 1
           /\ Count(tr, "fetch_coin_balances") <= 1
           /\ Count(tr, "credibility_predict") <= 1
           /\ Count(tr, "influencer_predict") <= 1
           /\ Occurs(tr, "fetch_coin_balances") => postsOk
           /\ Precedes(tr, "user_posts_scanned", "fetch_coin_balances")
           /\ Occurs(tr, "credibility_predict") => postsOk /\ balancesOk
           /\ Occurs(tr, "influencer_predict") => postsOk /\ balancesOk
           /\ Precedes(tr, "coin_balances_scanned", "credibility_predict")
           /\ Precedes(tr, "coin_balances_scanned", "influencer_predict")
           /\ (pc[r] = "done" /\ ~postsOk) =>
                 /\ ~Occurs(tr, "fetch_coin_balances")
                 /\ coin_balances_status[r] = 0
                 /\ credibility_features[r] = <<>>
                 /\ berries_features[r] = <<>>
           /\ (pc[r] = "done" /\ ~balancesOk) =>
                 /\ credibility_features[r] = <<>>
                 /\ berries_features[r] = <<>>

\* A malformed user-posts payload ended the request at the scan.
C10_Witness ==
    \E r \in AllRequests :
        /\ trace[r] = <<"fetch_user_posts", "user_posts_fetched",
                        "user_posts_scan_raised", "respond_error">>
        /\ coin_balances_status[r] = 0
        /\ total_likes[r] > 0

\* ------------------------------------------------------------------- C8
\* The response of one request running by itself on the given predictors,
\* the given two upstream answers.
RunAlone(cm, im, status1, body1, status2, body2) ==
    IF ~Fetched(status1) THEN FetchFailed(status1)
    ELSE LET t == ScanUserPosts(body1)
         IN IF t.raised # "none" THEN MalformedData
            ELSE IF ~Fetched(status2) THEN FetchFailed(status2)
            ELSE LET w == ScanCoinBalances(body2)
                 IN IF w.raised # "none" THEN MalformedData
                    ELSE LET p1 == Predict(cm, CredibilityFeatures(w.onchain_net_worth,
                                                                   followers_of_followers))
                         IN IF p1.raised # "none" THEN InternalError
                            ELSE LET cw == FirstElement(p1)
                                     p2 == Predict(im, BerriesFeatures(BerriesInput(
                                               t, Average(t.total_likes, t.total_posts),
                                               Average(t.total_comments, t.total_posts), cw)))
                                 IN IF p2.raised # "none" THEN InternalError
                                    ELSE LET out == BuildOutput(cw, FirstElement(p2))
                                         IN IF out.kind = "success" THEN out
                                            ELSE InternalError

\* Everything request q reads or writes of its own.
Locals(q) ==
    << pc[q], account_address[q], user_posts_status[q], user_posts_data[q],
       total_followers[q], total_likes[q], total_comments[q], total_posts[q],
       average_likes_per_day[q], average_comments_per_day[q],
       coin_balances_status[q], coin_balances[q], onchain_net_worth[q],
       credibility_features[q], credibility_weight[q], berries_input[q],
       berries_features[q], berries[q], response[q], trace[q] >>

\* C8: however the requests interleave at their awaits, a finished request's
\* response is the one the same request has when run alone on its own two
\* upstream answers, and a step of one request changes neither the two
\* predictors nor anything of another request.
C8_RequestsAreIsolated ==
    /\ [](\A r \in AllRequests :
             pc[r] = "done" =>
                 response[r] = RunAlone(credibility_model, influencer_model,
                                        user_posts_status[r], user_posts_data[r],
                                        coin_balances_status[r], coin_balances[r]))
    /\ [][/\ models' = models
          /\ \E r \in AllRequests :
                \A q \in AllRequests \ {r} : Locals(q)' = Locals(q)]_vars

\* Two requests were in flight together with different aggregates, and the
\* second finished with a success built from its own.
C8_Witness ==
    /\ pc[1] = "await_coin_balances"
    /\ pc[2] = "done"
    /\ trace[1][Len(trace[1])] = "fetch_coin_balances"
    /\ response[2].kind = "success"
    /\ total_followers[1] # total_followers[2]
    /\ berries_features[2][1] = Float(total_followers[2])
    /\ account_address[1] # account_address[2]

====
